---- MODULE Spec2Model ----
(***************************************************************************)
(* A model of the Bencode decoder of src/src/lib.rs.                       *)
(*                                                                         *)
(* The reader is a cursor over a finite byte sequence: `input` holds the   *)
(* bytes (each a one-character string, as char::from(u8) yields) and a     *)
(* position the index of the next byte to read.  Every decode routine is   *)
(* an operator from (input, pos) to an outcome record that carries the     *)
(* reader's position when the routine returns:                             *)
(*    [k |-> "Ok",    v |-> value, pos |-> p]   the routine returned Ok(v) *)
(*    [k |-> "Err",   err |-> e,   pos |-> p]   it returned Err(e)         *)
(*    [k |-> "Panic",              pos |-> p]   an unwrap() panicked       *)
(* The `?` operator is the test  r.k # "Ok"  followed by returning r.      *)
(***************************************************************************)
EXTENDS Integers, Sequences, FiniteSets, TLC

VARIABLES input, origin, pos, result

vars == <<input, origin, pos, result>>

(***************************************************************************)
(* Bounds of the model.                                                    *)
(***************************************************************************)
\* longest byte sequence drawn from Alphabet
MaxLen == 4
\* most elements of a generated list, most entries of a generated dictionary
MaxElems == 2
\* most bytes appended after a generated encoding
MaxTail == 1
\* most lists and dictionaries opened around a failing unit
MaxDepth == 2

(***************************************************************************)
(* Values: enum Bencoding, enum DecodeTypes, enum DecodeError.             *)
(***************************************************************************)
BString(s) == [t |-> "String", s |-> s]

BInteger(i) == [t |-> "Integer", i |-> i]

BList(l) == [t |-> "List", l |-> l]

BDictionary(d) == [t |-> "Dictionary", d |-> d]

DTBencoding(b) == [dt |-> "Bencoding", b |-> b]

EndMarker == [dt |-> "EndMarker"]

ErrIO == [e |-> "IO"]

UnknownSymbol(c) == [e |-> "UnknownSymbol", c |-> c]

LeadingZeroInteger == [e |-> "LeadingZeroInteger"]

NegativeZeroInteger == [e |-> "NegativeZeroInteger"]

InvalidNumberInteger(c) == [e |-> "InvalidNumberInteger", c |-> c]

KeyNotStringDictionary(b) == [e |-> "KeyNotStringDictionary", b |-> b]

ErrorKinds ==
    {"IO", "UnknownSymbol", "LeadingZeroInteger", "NegativeZeroInteger",
     "InvalidNumberInteger", "KeyNotStringDictionary"}

Ok(v, p) == [k |-> "Ok", v |-> v, pos |-> p]

Err(e, p) == [k |-> "Err", err |-> e, pos |-> p]

Panic(p) == [k |-> "Panic", pos |-> p]

(***************************************************************************)
(* The reader: one byte, or exactly n bytes; a source that ends early is   *)
(* an io::Error, which From<IOError> turns into DecodeError::IO.           *)
(***************************************************************************)
read_to_u8(inp, p) ==
    IF p > Len(inp)
    THEN Err(ErrIO, p)
    ELSE Ok(inp[p], p + 1)

\* faulty variant: a source that ends early yields the bytes that are left
read_exact_short(inp, p, n) ==
    IF p + n - 1 > Len(inp)
    THEN Ok(SubSeq(inp, p, Len(inp)), Len(inp) + 1)
    ELSE Ok(SubSeq(inp, p, p + n - 1), p + n)

read_exact(inp, p, n) ==
    IF p + n - 1 > Len(inp)
    THEN Err(ErrIO, p)
    ELSE Ok(SubSeq(inp, p, p + n - 1), p + n)

(***************************************************************************)
(* str::parse for usize and i64.  The text is a sequence of characters.    *)
(***************************************************************************)
Digits == {"0", "1", "2", "3", "4", "5", "6", "7", "8", "9"}

DigitVal(c) ==
    CASE c = "0" -> 0 [] c = "1" -> 1 [] c = "2" -> 2 [] c = "3" -> 3
      [] c = "4" -> 4 [] c = "5" -> 5 [] c = "6" -> 6 [] c = "7" -> 7
      [] c = "8" -> 8 [] c = "9" -> 9

RECURSIVE StripZeros(_)
StripZeros(ds) ==
    IF Len(ds) > 1 /\ ds[1] = "0" THEN StripZeros(Tail(ds)) ELSE ds

RECURSIVE LexLeq(_, _)
LexLeq(a, b) ==
    IF a = <<>> THEN TRUE
    ELSE IF DigitVal(a[1]) # DigitVal(b[1]) THEN DigitVal(a[1]) < DigitVal(b[1])
    ELSE LexLeq(Tail(a), Tail(b))

\* whether the number written by the digits ds is at most the one written by limit
Fits(ds, limit) ==
    LET s == StripZeros(ds) IN
    \/ Len(s) < Len(limit)
    \/ Len(s) = Len(limit) /\ LexLeq(s, limit)

RECURSIVE Horner(_, _)
Horner(acc, ds) ==
    IF ds = <<>> THEN acc ELSE Horner(acc * 10 + DigitVal(ds[1]), Tail(ds))

\* u64::MAX, i64::MAX and -i64::MIN as decimal texts
USizeMaxText ==
    <<"1","8","4","4","6","7","4","4","0","7","3","7","0","9","5","5","1","6","1","5">>

I64MaxText ==
    <<"9","2","2","3","3","7","2","0","3","6","8","5","4","7","7","5","8","0","7">>

I64MinText ==
    <<"9","2","2","3","3","7","2","0","3","6","8","5","4","7","7","5","8","0","8">>

\* <usize as FromStr>::from_str: an optional '+', then one or more digits
parse_usize(text) ==
    LET ds == IF text # <<>> /\ text[1] = "+" THEN Tail(text) ELSE text IN
    IF ds = <<>> \/ (\E j \in 1..Len(ds) : ds[j] \notin Digits)
       \/ ~Fits(ds, USizeMaxText)
    THEN [ok |-> FALSE]
    ELSE [ok |-> TRUE, n |-> Horner(0, ds)]

\* <i64 as FromStr>::from_str: an optional '+' or '-', then one or more digits
parse_i64(text) ==
    LET neg == text # <<>> /\ text[1] = "-"
        ds == IF text # <<>> /\ text[1] \in {"+", "-"} THEN Tail(text) ELSE text
    IN
    IF ds = <<>> \/ (\E j \in 1..Len(ds) : ds[j] \notin Digits)
       \/ ~Fits(ds, IF neg THEN I64MinText ELSE I64MaxText)
    THEN [ok |-> FALSE]
    ELSE [ok |-> TRUE, n |-> IF neg THEN 0 - Horner(0, ds) ELSE Horner(0, ds)]

(***************************************************************************)
(* decode_string                                                           *)
(***************************************************************************)
RECURSIVE decode_string_loop(_, _, _)
decode_string_loop(length_text, inp, p) ==
    LET r == read_to_u8(inp, p) IN
    IF r.k # "Ok" THEN r
    ELSE IF r.v \in Digits THEN decode_string_loop(Append(length_text, r.v), inp, r.pos)
    ELSE IF r.v = ":" THEN Ok(length_text, r.pos)
    ELSE Err(InvalidNumberInteger(r.v), r.pos)

\* faulty variant: the payload is read one byte too long
decode_string_one_more(first_char, inp, p) ==
    LET t == decode_string_loop(<<first_char>>, inp, p) IN
    IF t.k # "Ok" THEN t
    ELSE LET length == parse_usize(t.v) IN
         IF ~length.ok THEN Panic(t.pos)
         ELSE read_exact(inp, t.pos, length.n + 1)

decode_string(first_char, inp, p) ==
    LET t == decode_string_loop(<<first_char>>, inp, p) IN
    IF t.k # "Ok" THEN t
    ELSE LET length == parse_usize(t.v) IN
         IF ~length.ok THEN Panic(t.pos)
         ELSE read_exact(inp, t.pos, length.n)

(***************************************************************************)
(* decode_integer                                                          *)
(***************************************************************************)
RECURSIVE decode_integer_loop(_, _, _)
decode_integer_loop(text, inp, p) ==
    LET r == read_to_u8(inp, p) IN
    IF r.k # "Ok" THEN r
    ELSE IF r.v \in Digits THEN decode_integer_loop(Append(text, r.v), inp, r.pos)
    ELSE IF r.v = "e" THEN Ok(text, r.pos)
    ELSE Err(InvalidNumberInteger(r.v), r.pos)

\* text.parse().unwrap()
parse_unwrap(text, p) ==
    LET n == parse_i64(text) IN
    IF n.ok THEN Ok(n.n, p) ELSE Panic(p)

decode_integer(inp, p) ==
    LET first == read_to_u8(inp, p) IN
    IF first.k # "Ok" THEN first
    ELSE
    LET second == read_to_u8(inp, first.pos) IN
    IF second.k # "Ok" THEN second
    ELSE
    LET first_chr == first.v
        second_chr == second.v
        rest == decode_integer_loop(<<first_chr, second_chr>>, inp, second.pos)
    IN
    IF first_chr = "0"
    THEN IF second_chr = "e"
         THEN Ok(0, second.pos)
         ELSE Err(LeadingZeroInteger, second.pos)
    ELSE IF first_chr = "-" /\ second_chr = "0"
    THEN Err(NegativeZeroInteger, second.pos)
    ELSE IF first_chr # "-" /\ second_chr = "e"
    THEN parse_unwrap(<<first_chr>>, second.pos)
    ELSE IF rest.k # "Ok" THEN rest
    ELSE parse_unwrap(rest.v, rest.pos)

(***************************************************************************)
(* decode, decode_list, decode_dict                                        *)
(***************************************************************************)
\* faulty variant: the entry of a key that is present is kept
insert_keep_first(dict, key, value) ==
    [x \in DOMAIN dict \cup {key} |-> IF x \in DOMAIN dict THEN dict[x] ELSE value]

\* HashMap::insert: the entry of key is replaced when there is one
insert(dict, key, value) ==
    [x \in DOMAIN dict \cup {key} |-> IF x = key THEN value ELSE dict[x]]

RECURSIVE decode(_, _)
RECURSIVE decode_list_loop(_, _, _)
RECURSIVE decode_dict_loop(_, _, _)

\* faulty variant: the elements are pushed at the front
decode_list_loop_front(list, inp, p) ==
    LET to_add == decode(inp, p) IN
    IF to_add.k # "Ok" THEN to_add
    ELSE IF to_add.v.dt = "EndMarker" THEN Ok(list, to_add.pos)
    ELSE decode_list_loop(<<to_add.v.b>> \o list, inp, to_add.pos)

\* faulty variant: a failing element ends the list with the elements read so far
decode_list_loop_swallow(list, inp, p) ==
    LET to_add == decode(inp, p) IN
    IF to_add.k # "Ok" THEN Ok(list, to_add.pos)
    ELSE IF to_add.v.dt = "EndMarker" THEN Ok(list, to_add.pos)
    ELSE decode_list_loop(Append(list, to_add.v.b), inp, to_add.pos)

decode_list_loop(list, inp, p) ==
    LET to_add == decode(inp, p) IN
    IF to_add.k # "Ok" THEN to_add
    ELSE IF to_add.v.dt = "EndMarker" THEN Ok(list, to_add.pos)
    ELSE decode_list_loop(Append(list, to_add.v.b), inp, to_add.pos)

decode_list(inp, p) == decode_list_loop(<<>>, inp, p)

\* faulty variant: a key that is no string is skipped
decode_dict_loop_skip(dict, inp, p) ==
    LET key == decode(inp, p) IN
    IF key.k # "Ok" THEN key
    ELSE IF key.v.dt = "EndMarker" THEN Ok(dict, key.pos)
    ELSE IF key.v.b.t # "String" THEN decode_dict_loop(dict, inp, key.pos)
    ELSE
    LET value == decode(inp, key.pos) IN
    IF value.k # "Ok" THEN value
    ELSE IF value.v.dt = "EndMarker" THEN Err(UnknownSymbol("e"), value.pos)
    ELSE decode_dict_loop(insert(dict, key.v.b.s, value.v.b), inp, value.pos)

decode_dict_loop(dict, inp, p) ==
    LET key == decode(inp, p) IN
    IF key.k # "Ok" THEN key
    ELSE IF key.v.dt = "EndMarker" THEN Ok(dict, key.pos)
    ELSE IF key.v.b.t # "String" THEN Err(KeyNotStringDictionary(key.v.b), key.pos)
    ELSE
    LET value == decode(inp, key.pos) IN
    IF value.k # "Ok" THEN value
    ELSE IF value.v.dt = "EndMarker" THEN Err(UnknownSymbol("e"), value.pos)
    ELSE decode_dict_loop(insert(dict, key.v.b.s, value.v.b), inp, value.pos)

decode_dict(inp, p) == decode_dict_loop(<<>>, inp, p)

\* Ok(DecodeTypes::Bencoding(Bencoding::X(r?)))
wrap(r, kind) ==
    IF r.k # "Ok" THEN r
    ELSE Ok(DTBencoding(CASE kind = "String" -> BString(r.v)
                          [] kind = "Integer" -> BInteger(r.v)
                          [] kind = "List" -> BList(r.v)
                          [] kind = "Dictionary" -> BDictionary(r.v)), r.pos)

decode(inp, p) ==
    LET r == read_to_u8(inp, p) IN
    IF r.k # "Ok" THEN r
    ELSE
    LET type_character == r.v IN
    IF type_character \in Digits
    THEN wrap(decode_string(type_character, inp, r.pos), "String")
    ELSE IF type_character = "i" THEN wrap(decode_integer(inp, r.pos), "Integer")
    ELSE IF type_character = "l" THEN wrap(decode_list(inp, r.pos), "List")
    ELSE IF type_character = "d" THEN wrap(decode_dict(inp, r.pos), "Dictionary")
    ELSE IF type_character = "e" THEN Ok(EndMarker, r.pos)
    ELSE Err(UnknownSymbol(type_character), r.pos)

\* faulty variant: the end marker is handed to the caller
import_end_marker(inp, p) ==
    LET r == decode(inp, p) IN
    IF r.k # "Ok" THEN r
    ELSE IF r.v.dt = "Bencoding" THEN Ok(r.v.b, r.pos)
    ELSE Ok(r.v, r.pos)

\* Bencoding::import
import(inp, p) ==
    LET r == decode(inp, p) IN
    IF r.k # "Ok" THEN r
    ELSE IF r.v.dt = "Bencoding" THEN Ok(r.v.b, r.pos)
    ELSE Err(UnknownSymbol("e"), r.pos)

(***************************************************************************)
(* The inputs.  A tree is a value as it is written on the wire: a string,  *)
(* an integer, a list of trees, or a dictionary written as the sequence of *)
(* its (key, tree) entries, in which a key may occur more than once.       *)
(* Encode is the Bencode wire format: <length>:<bytes>, i<decimal>e,       *)
(* l<elements>e, d<key value ...>e.                                        *)
(***************************************************************************)
TDictionary(p) == [t |-> "Dictionary", p |-> p]

Entry(key, value) == [key |-> key, value |-> value]

DigitChar(n) ==
    CASE n = 0 -> "0" [] n = 1 -> "1" [] n = 2 -> "2" [] n = 3 -> "3"
      [] n = 4 -> "4" [] n = 5 -> "5" [] n = 6 -> "6" [] n = 7 -> "7"
      [] n = 8 -> "8" [] n = 9 -> "9"

RECURSIVE NatText(_)
NatText(n) ==
    IF n < 10 THEN <<DigitChar(n)>>
    ELSE Append(NatText(n \div 10), DigitChar(n % 10))

IntText(i) == IF i < 0 THEN <<"-">> \o NatText(0 - i) ELSE NatText(i)

RECURSIVE Encode(_)
RECURSIVE EncodeAll(_)
RECURSIVE EncodeEntries(_)

EncodeAll(trees) ==
    IF trees = <<>> THEN <<>>
    ELSE Encode(Head(trees)) \o EncodeAll(Tail(trees))

EncodeEntries(entries) ==
    IF entries = <<>> THEN <<>>
    ELSE Encode(BString(Head(entries).key)) \o Encode(Head(entries).value)
         \o EncodeEntries(Tail(entries))

Encode(tree) ==
    CASE tree.t = "String" -> NatText(Len(tree.s)) \o <<":">> \o tree.s
      [] tree.t = "Integer" -> <<"i">> \o IntText(tree.i) \o <<"e">>
      [] tree.t = "List" -> <<"l">> \o EncodeAll(tree.l) \o <<"e">>
      [] tree.t = "Dictionary" -> <<"d">> \o EncodeEntries(tree.p) \o <<"e">>

\* the keys of a sequence of entries
KeysOf(entries) == {entries[j].key : j \in 1..Len(entries)}

\* the position of the last entry of a key
LastOf(entries, key) ==
    CHOOSE j \in 1..Len(entries) :
        /\ entries[j].key = key
        /\ \A h \in (j + 1)..Len(entries) : entries[h].key # key

RECURSIVE NoDuplicateKey(_)
NoDuplicateKey(tree) ==
    CASE tree.t = "List" -> \A j \in 1..Len(tree.l) : NoDuplicateKey(tree.l[j])
      [] tree.t = "Dictionary" ->
            /\ Cardinality(KeysOf(tree.p)) = Len(tree.p)
            /\ \A j \in 1..Len(tree.p) : NoDuplicateKey(tree.p[j].value)
      [] OTHER -> TRUE

\* the value a tree without a repeated key writes
RECURSIVE ValueOf(_)
ValueOf(tree) ==
    CASE tree.t = "List" -> BList([j \in 1..Len(tree.l) |-> ValueOf(tree.l[j])])
      [] tree.t = "Dictionary" ->
            BDictionary([key \in KeysOf(tree.p) |->
                ValueOf(tree.p[CHOOSE j \in 1..Len(tree.p) : tree.p[j].key = key].value)])
      [] OTHER -> tree

SeqsUpTo(S, n) == UNION {[1..m -> S] : m \in 0..n}

Atoms ==
    {BString(<<>>), BString(<<"e">>), BInteger(0), BInteger(0 - 3), BInteger(10)}

Keys == {<<"a">>, <<"b">>}

ListsOver(S) == {BList(l) : l \in SeqsUpTo(S, MaxElems)}

DictionariesOver(S) ==
    {TDictionary(p) : p \in SeqsUpTo({Entry(key, v) : key \in Keys, v \in S}, MaxElems)}

\* the aggregates nested inside another aggregate
Inner ==
    {BString(<<"e">>), BInteger(0 - 3), BList(<<>>), BList(<<BString(<<>>)>>),
     BList(<<TDictionary(<<>>)>>), TDictionary(<<>>),
     TDictionary(<<Entry(<<"a">>, BInteger(0))>>)}

\* the fixtures of the tests of src/src/lib.rs
Spam == <<"s", "p", "a", "m">>

Fixtures ==
    {BString(Spam), BInteger(3),
     BList(<<BString(<<"b","e","n","c","o","d","i","n","g">>), BString(<<"i","s">>),
             BString(<<"f","u","n">>)>>),
     TDictionary(<<Entry(Spam, BList(<<BString(<<"a">>), BString(<<"b">>)>>))>>),
     BString(<<"0","1","2","3","4","5","6","7","8","9">>)}

\* dictionaries that write a key twice among the entries of another key
Repeated ==
    {TDictionary(<<Entry(<<"a">>, BInteger(0)), Entry(<<"b">>, BString(<<>>)),
                   Entry(<<"a">>, BInteger(10))>>),
     TDictionary(<<Entry(<<"b">>, BList(<<>>)), Entry(<<"a">>, BInteger(0)),
                   Entry(<<"a">>, BString(<<"e">>)), Entry(<<"a">>, BInteger(0 - 3))>>),
     TDictionary(<<Entry(<<"a">>, BString(<<"e">>)), Entry(<<"a">>, BInteger(0)),
                   Entry(<<"b">>, BInteger(3))>>)}

Trees ==
    Atoms \cup ListsOver(Atoms) \cup DictionariesOver(Atoms)
          \cup ListsOver(Inner) \cup DictionariesOver(Inner) \cup Fixtures \cup Repeated

\* the trees written where a dictionary expects a key
KeyTrees ==
    {t \in Atoms \cup ListsOver(Atoms) \cup Inner \cup Fixtures : t.t # "String"}

\* the entries written before that key
Befores == {<<>>, <<Entry(<<"a">>, BInteger(0))>>, <<Entry(<<>>, BList(<<BString(<<"e">>)>>))>>}

Alphabet == {"0", "1", "-", "+", "i", "l", "d", "e", ":", "x"}

TailBytes == {"e", "1", "x"}

Tails == SeqsUpTo(TailBytes, MaxTail)

\* malformed inputs outside the sequences over Alphabet of at most MaxLen bytes
LongInputs ==
    {<<"3","x",":","a","b","c">>,
     <<"i","x"," ","e">>,
     <<"i","9","2","2","3","3","7","2","0","3","6","8","5","4","7","7","5","8","0","8","e">>,
     <<"l","d","1",":","a","l","i","-","0","e","e","e","e">>}

\* the opening bytes of the aggregates around a unit: a list, a list after an
\* element, a dictionary at a key, a dictionary at the value of a key
Wrappers == {<<"l">>, <<"l", "0", ":">>, <<"d">>, <<"d", "1", ":", "a">>}

RECURSIVE Flatten(_)
Flatten(ss) == IF ss = <<>> THEN <<>> ELSE Head(ss) \o Flatten(Tail(ss))

\* units that fail to decode
Units ==
    {<<>>, <<"x">>, <<"i">>, <<"i", "0", "3", "e">>, <<"i", "-", "0", "e">>,
     <<"i", "1", "2", "x", "e">>, <<"3", "x", ":">>, <<"2", ":", "a">>,
     <<"d", "i", "0", "e", "e">>, <<"d", "0", ":", "e">>, <<"l", "1", ":", "a", "x">>,
     <<"l", "l", "1">>}

(***************************************************************************)
(* An input is                                                             *)
(*   raw:  a byte sequence over Alphabet, or one of LongInputs;            *)
(*   cut:  the encoding of a tree with its last cut bytes removed;         *)
(*   enc:  the encoding of a tree followed by a tail;                      *)
(*   key:  a dictionary that writes a tree that is no string as a key;     *)
(*   val:  a dictionary that writes the end marker as the value of a key;  *)
(*   ctx:  a failing unit inside opened lists and dictionaries.            *)
(***************************************************************************)
RawOrigin(s) == [kind |-> "raw", bytes |-> s]

CutOrigin(t, c) == [kind |-> "cut", tree |-> t, cut |-> c]

EncOrigin(t, tl) == [kind |-> "enc", tree |-> t, tail |-> tl]

KeyOrigin(b, t, tl) == [kind |-> "key", before |-> b, tree |-> t, tail |-> tl]

ValOrigin(b, key, tl) == [kind |-> "val", before |-> b, key |-> key, tail |-> tl]

CtxOrigin(c, u, tl) == [kind |-> "ctx", ctx |-> c, unit |-> u, tail |-> tl]

InputOf(o) ==
    CASE o.kind = "raw" -> o.bytes
      [] o.kind = "cut" -> SubSeq(Encode(o.tree), 1, Len(Encode(o.tree)) - o.cut)
      [] o.kind = "enc" -> Encode(o.tree) \o o.tail
      [] o.kind = "key" ->
            <<"d">> \o EncodeEntries(o.before) \o Encode(o.tree) \o o.tail
      [] o.kind = "val" ->
            <<"d">> \o EncodeEntries(o.before) \o Encode(BString(o.key)) \o <<"e">>
                    \o o.tail
      [] o.kind = "ctx" -> Flatten(o.ctx) \o o.unit \o o.tail

NotRun == [k |-> "NotRun"]

\* the Result<Bencoding, DecodeError> of an outcome, without the reader position
Returned(r) ==
    CASE r.k = "Ok" -> [k |-> "Ok", v |-> r.v]
      [] r.k = "Err" -> [k |-> "Err", err |-> r.err]
      [] r.k = "Panic" -> [k |-> "Panic"]

Init ==
    /\ \/ \E s \in SeqsUpTo(Alphabet, MaxLen) \cup LongInputs : origin = RawOrigin(s)
       \/ \E t \in Trees : \E c \in 1..Len(Encode(t)) : origin = CutOrigin(t, c)
       \/ \E t \in Trees : \E tl \in Tails : origin = EncOrigin(t, tl)
       \/ \E b \in Befores : \E t \in KeyTrees : \E tl \in Tails :
            origin = KeyOrigin(b, t, tl)
       \/ \E b \in Befores : \E key \in Keys \cup {<<>>} : \E tl \in Tails :
            origin = ValOrigin(b, key, tl)
       \/ \E c \in SeqsUpTo(Wrappers, MaxDepth) : \E u \in Units : \E tl \in Tails :
            origin = CtxOrigin(c, u, tl)
    /\ input = InputOf(origin)
    /\ pos = 1
    /\ result = NotRun

\* Bencoding::import(&mut Cursor::new(input))
Import ==
    /\ result = NotRun
    /\ LET r == import(input, pos) IN
        /\ result' = Returned(r)
        /\ pos' = r.pos
    /\ UNCHANGED <<input, origin>>

Next == Import

Spec == Init /\ [][Next]_vars

Done == result.k # "NotRun"

(***************************************************************************)
(* The claims.                                                             *)
(***************************************************************************)

\* C1: import applied to the encoding of a value (strings, integers, lists,
\* dictionaries without a repeated key, nested or empty) returns exactly that
\* value: the same variant, bytes, integer, elements in input order, and the
\* same mapping from keys to values.
C1_ImportReturnsTheEncodedValue ==
    (Done /\ origin.kind = "enc" /\ origin.tail = <<>> /\ NoDuplicateKey(origin.tree))
        => result = [k |-> "Ok", v |-> ValueOf(origin.tree)]

\* a dictionary of two keys, one of them mapped to a list, has been decoded
C1_Witness ==
    /\ Done /\ origin.kind = "enc" /\ origin.tail = <<>>
    /\ origin.tree.t = "Dictionary" /\ Len(origin.tree.p) = 2
    /\ NoDuplicateKey(origin.tree)
    /\ origin.tree.p[1].value.t = "List" /\ Len(origin.tree.p[1].value.l) = 1
    /\ result.k = "Ok" /\ Cardinality(DOMAIN result.v.d) = 2

\* C2: on every input whose numeric texts fit in 64 bits import either returns
\* a value or returns an error of one of the six kinds; no unwrap panics.
C2_OutcomeIsValueOrDecodeError ==
    (Done /\ Len(input) < Len(I64MaxText))
        => \/ result.k = "Ok"
           \/ result.k = "Err" /\ result.err.e \in ErrorKinds

\* the first character of the body of an integer at the top of the input that
\* is neither a digit nor the sign in front of the digits: 0 when there is none
FirstNonDigit(inp) ==
    LET bad == {j \in 2..Len(inp) :
                    /\ inp[j] \notin Digits
                    /\ ~(j = 2 /\ inp[j] = "-")}
    IN IF bad = {} THEN 0 ELSE CHOOSE j \in bad : \A h \in bad : j <= h

\* C3: in an integer a character that is not a digit and stands before the
\* terminating 'e' makes import fail with the invalid-number error carrying
\* that character, at every position of the body (leaving the leading-zero and
\* negative-zero errors to the integers that begin with 0 or -0).
C3_NonDigitInIntegerIsInvalidNumber ==
    (/\ Done /\ origin.kind = "raw" /\ Len(input) >= 3 /\ input[1] = "i"
     /\ input[2] # "0" /\ ~(input[2] = "-" /\ input[3] = "0")
     /\ FirstNonDigit(input) # 0 /\ input[FirstNonDigit(input)] # "e"
     /\ \E j \in (FirstNonDigit(input) + 1)..Len(input) : input[j] = "e")
        => result = [k |-> "Err", err |-> InvalidNumberInteger(input[FirstNonDigit(input)])]

\* i, an optional '-', one or more digits without a leading zero, e; no -0
WellFormedInteger(bs) ==
    /\ Len(bs) >= 3 /\ bs[1] = "i" /\ bs[Len(bs)] = "e"
    /\ LET body == SubSeq(bs, 2, Len(bs) - 1)
           ds == IF body[1] = "-" THEN Tail(body) ELSE body
       IN /\ ds # <<>>
          /\ \A j \in 1..Len(ds) : ds[j] \in Digits
          /\ ds[1] = "0" => body = <<"0">>

\* C4: whenever import returns an Integer, the bytes consumed for it are 'i',
\* an optional '-', decimal digits, 'e', with no leading zero and no signed zero.
C4_AcceptedIntegerIsWellFormed ==
    (Done /\ result.k = "Ok" /\ result.v.t = "Integer")
        => WellFormedInteger(SubSeq(input, 1, pos - 1))

\* C5: import on a proper prefix of a well-formed encoding (down to the empty
\* input) fails with the I/O error: never a value, never another error.
C5_TruncationIsIOError ==
    (Done /\ origin.kind = "cut") => result = [k |-> "Err", err |-> ErrIO]

\* a dictionary holding a nested aggregate was cut inside, and decoding it failed
C5_Witness ==
    /\ Done /\ origin.kind = "cut"
    /\ origin.tree.t = "Dictionary" /\ Len(origin.tree.p) = 2
    /\ origin.tree.p[2].value.t = "List"
    /\ origin.cut = 3
    /\ result.k = "Err" /\ result.err.e = "IO"

\* C6: a dictionary that writes a key more than once decodes without error to
\* a Dictionary with one entry per key, each key mapped to the value written
\* last for it; the entries of the other keys are those written.
C6_LastWriteWins ==
    (/\ Done /\ origin.kind = "enc" /\ origin.tree.t = "Dictionary"
     /\ Cardinality(KeysOf(origin.tree.p)) < Len(origin.tree.p))
        => /\ result.k = "Ok"
           /\ result.v.t = "Dictionary"
           /\ DOMAIN result.v.d = KeysOf(origin.tree.p)
           /\ \A key \in KeysOf(origin.tree.p) :
                result.v.d[key] = ValueOf(origin.tree.p[LastOf(origin.tree.p, key)].value)

\* a key written twice with different values, beside another key, was decoded
C6_Witness ==
    /\ Done /\ origin.kind = "enc" /\ origin.tree.t = "Dictionary"
    /\ Len(origin.tree.p) = 3
    /\ origin.tree.p[1].key = origin.tree.p[3].key
    /\ origin.tree.p[1].key # origin.tree.p[2].key
    /\ origin.tree.p[1].value # origin.tree.p[3].value
    /\ result.k = "Ok" /\ Cardinality(DOMAIN result.v.d) = 2

\* C7: a key slot that decodes to an Integer, a List or a Dictionary makes
\* import fail with key-not-a-string carrying exactly that value; the reader
\* stands right after the key, so the value slot is never read.
C7_NonStringKeyIsRejected ==
    (Done /\ origin.kind = "key")
        => /\ result = [k |-> "Err", err |-> KeyNotStringDictionary(ValueOf(origin.tree))]
           /\ pos = 1 + Len(<<"d">> \o EncodeEntries(origin.before) \o Encode(origin.tree))

\* a list stood at the key of the second entry, with bytes after it
C7_Witness ==
    /\ Done /\ origin.kind = "key" /\ origin.before # <<>> /\ origin.tail # <<>>
    /\ origin.tree.t = "List" /\ Len(origin.tree.l) = 2
    /\ result.k = "Err" /\ result.err.e = "KeyNotStringDictionary"
    /\ pos <= Len(input)

\* C8: the end marker ends a list at an element slot and a dictionary at a key
\* slot; at the top level and at the value slot of a dictionary entry import
\* fails with unknown-symbol carrying 'e'; import never returns the internal
\* EndMarker as its value.
C8_EndMarkerOnlyEndsAggregates ==
    Done =>
        /\ (input # <<>> /\ input[1] = "e")
            => result = [k |-> "Err", err |-> UnknownSymbol("e")] /\ pos = 2
        /\ origin.kind = "val"
            => /\ result = [k |-> "Err", err |-> UnknownSymbol("e")]
               /\ pos = 1 + Len(input) - Len(origin.tail)
        /\ (Len(input) >= 2 /\ input[1] = "l" /\ input[2] = "e")
            => result = [k |-> "Ok", v |-> BList(<<>>)] /\ pos = 3
        /\ (Len(input) >= 2 /\ input[1] = "d" /\ input[2] = "e")
            => result = [k |-> "Ok", v |-> BDictionary(<<>>)] /\ pos = 3
        /\ result.k = "Ok"
            => /\ "dt" \notin DOMAIN result.v
               /\ result.v.t \in {"String", "Integer", "List", "Dictionary"}

\* the end marker stood at the value of the second key, with bytes after it
C8_Witness ==
    /\ Done /\ origin.kind = "val" /\ origin.before # <<>> /\ origin.tail # <<>>
    /\ result.k = "Err" /\ result.err.e = "UnknownSymbol" /\ result.err.c = "e"

\* C9: when import succeeds on an encoding followed by arbitrary bytes, the
\* reader stands right after the last byte of the encoding (a string takes
\* exactly its declared length, every list and dictionary exactly its own end
\* marker) and the value is the one returned for the encoding alone.
C9_ReaderStopsAfterTheUnit ==
    (Done /\ origin.kind = "enc")
        => /\ result.k = "Ok"
           /\ pos = Len(Encode(origin.tree)) + 1
           /\ result = Returned(import(Encode(origin.tree), 1))

\* a list holding a list was decoded with bytes left after it
C9_Witness ==
    /\ Done /\ origin.kind = "enc" /\ origin.tail # <<>>
    /\ origin.tree.t = "List" /\ Len(origin.tree.l) = 2
    /\ origin.tree.l[1].t = "List" /\ origin.tree.l[2].t = "String"
    /\ result.k = "Ok" /\ pos <= Len(input)

\* C10: a failure inside lists and dictionaries is returned by import as it
\* is (same kind, same character or value), never a partly built aggregate;
\* the reader stands where the unit failed, and the bytes after that point
\* (none, when the failure is the end of the input) do not change the result.
C10_FailurePropagatesUnchanged ==
    (/\ Done /\ origin.kind = "ctx"
     /\ import(origin.unit, 1).k = "Err"
     /\ import(origin.unit, 1).err.e = "IO" => origin.tail = <<>>)
        => /\ result = Returned(import(origin.unit, 1))
           /\ pos = Len(Flatten(origin.ctx)) + import(origin.unit, 1).pos

\* a unit failed two aggregates deep, one of them a dictionary, before the end
\* of the input
C10_Witness ==
    /\ Done /\ origin.kind = "ctx" /\ Len(origin.ctx) = 2
    /\ origin.ctx[1] = <<"d", "1", ":", "a">> /\ origin.ctx[2] = <<"l", "0", ":">>
    /\ origin.tail # <<>>
    /\ result.k = "Err" /\ result.err.e = "KeyNotStringDictionary"
    /\ pos <= Len(input)

====
